---- MODULE Spec2Model ----
(***************************************************************************)
(* Flash-checkpoint engine of dlrover                                      *)
(* (dlrover/trainer/torch/flash_checkpoint/engine.py).                     *)
(*                                                                         *)
(* Training processes stage a state dict into a shared-memory region under *)
(* a named cross-process lock; the Saver of the node's agent drains the    *)
(* region under the same lock.  The collectives of torch.distributed       *)
(* (all_reduce, all_gather, barrier) block until every member of the group *)
(* has joined them.                                                        *)
(***************************************************************************)
EXTENDS Integers, Sequences, FiniteSets, TLC

\* The training loop saves at the steps 0..MaxSmallStep, or at the steps
\* F32Exact and F32Exact + 1.
MaxSmallStep == 1
\* The elastic agent restarts crashed processes at most MaxRestarts times.
MaxRestarts == 1
\* torch.Tensor([float(step)]) is a float32 tensor: integers are exact up to 2^24.
F32Exact == 16777216

DLROVER_CKPT_CONFIG_KEY == "_DLORVER_CKPT_CONFIG"

\* Process 1: node 1, LOCAL_RANK 0.  Process 2: node 1, LOCAL_RANK 1.
\* Process 3: node 2, LOCAL_RANK 0.
Procs == {1, 2, 3}
Nodes == {1, 2}
Shards == {0, 1}
Node(p) == IF p = 3 THEN 2 ELSE 1
LocalRank(p) == IF p = 2 THEN 1 ELSE 0

SmallSteps == 0..MaxSmallStep
LargeSteps == {F32Exact, F32Exact + 1}
Steps == {0} \cup SmallSteps \cup LargeSteps

\* The lock is free, or records who acquired it last.
Free == 0
SaverId == 9

VARIABLES
    world,              \* the processes of the job
    dist_initialized,   \* dist.is_initialized()
    local_shard_num,    \* get_local_shard_num()
    saver_group,        \* the ranks of _saver_group, {} when it is None
    train_steps,        \* the steps the training loop calls save_to_memory with
    pc,                 \* where each process is
    restart_count,      \* env_utils.get_torch_restart_count()
    cached_step,        \* self._cached_step
    acquired,           \* local acquired of save_state_dict_to_memory
    all_rank_ready,     \* local all_rank_ready of save_state_dict_to_memory
    conf_step,          \* conf.step of the running save_to_memory
    state_dict,         \* state_dict of the running save_to_memory
    config_step,        \* config.step read by get_state_dict_from_memory
    ret,                \* how the last call of the process ended
    state_dict_out,     \* what the last get_state_dict_from_memory returned
    shm_lock,           \* SharedLock of each (node, shard)
    shm,                \* staging region of each (node, shard)
    saver,              \* the Saver is draining the region of (node, shard)
    factory,            \* SharedQueue "factory" of each node
    event_queue,        \* event SharedQueue of each node
    round_failed,       \* history: some rank of the last reduction had not acquired
    pre_shm,            \* history: the region when the running save call began
    forced              \* history: a restart released a lock the Saver held

deploy == <<world, dist_initialized, local_shard_num, saver_group, train_steps>>
locals == <<acquired, all_rank_ready, conf_step, state_dict, config_step>>
results == <<ret, state_dict_out>>
queues == <<factory, event_queue>>
history == <<round_failed, pre_shm, forced>>
vars == <<deploy, pc, restart_count, cached_step, locals, results,
          shm_lock, shm, saver, queues, history>>

-----------------------------------------------------------------------------
\* dist.get_rank(), or 0 when torch.distributed is not initialized
Rank(p) ==
    IF dist_initialized THEN Cardinality({q \in world : q < p}) ELSE 0

get_local_shard_num == local_shard_num

NodesOf(w) == {Node(q) : q \in w}

get_global_shard_num == local_shard_num * Cardinality(NodesOf(world))

local_shard_id(p) == LocalRank(p) % get_local_shard_num

\* the name of the lock and of the region the process binds to
ShardOf(p) == <<Node(p), local_shard_id(p)>>

\* if self._local_rank != self.local_shard_id: return
IsWriterAny(p) == TRUE

IsWriter(p) == LocalRank(p) = local_shard_id(p)

WritersOf(w, n) == {q \in w : LocalRank(q) = LocalRank(q) % n}

GroupOf(p) == IF p \in saver_group THEN saver_group ELSE {}

\* the state dict of the model and optimizer at a step
StateDictAt(step) == {<<"w", step>>}

HasKey(sd, key) == \E kv \in sd : kv[1] = key

EmptyRegion == [step |-> 0, payload |-> {}]

-----------------------------------------------------------------------------
(* torch and the collectives of torch.distributed *)

\* float(step) stored in a float32 tensor: round to nearest, ties to even.
\* Exact below 2^24; the spacing is 2 from 2^24 to 2^25.
Float32(n) ==
    IF n <= F32Exact \/ n % 2 = 0 THEN n
    ELSE IF ((n - 1) \div 2) % 2 = 0 THEN n - 1 ELSE n + 1

RECURSIVE SumOver(_, _)
SumOver(f, S) ==
    IF S = {} THEN 0
    ELSE LET x == CHOOSE y \in S : TRUE IN f[x] + SumOver(f, S \ {x})

\* dist.all_reduce(t, group): every rank gets the sum of the contributions
all_reduce(group, t) == SumOver(t, group)

\* dist.all_gather(outputs, t, group): the contributions in rank order
RECURSIVE RankOrder(_)
RankOrder(group) ==
    IF group = {} THEN <<>>
    ELSE LET lo == CHOOSE q \in group : \A r \in group : q <= r
         IN <<lo>> \o RankOrder(group \ {lo})

all_gather(group, t) ==
    [i \in 1..Cardinality(group) |-> t[RankOrder(group)[i]]]

\* check_all_rank_ready(group, ready) as evaluated on one rank; ready maps
\* every rank to the vote it passes.
check_all_rank_ready_local(group, self, ready) == ready[self]

check_all_rank_ready_any(group, self, ready) ==
    IF group = {} THEN ready[self]
    ELSE LET value == [q \in group |-> IF ready[q] THEN 0 ELSE 1]
             t == all_reduce(group, value)
         IN t < Cardinality(group)

check_all_rank_ready(group, self, ready) ==
    IF group = {} THEN ready[self]
    ELSE LET value == [q \in group |-> IF ready[q] THEN 0 ELSE 1]
             t == all_reduce(group, value)
         IN t = 0

\* verify_all_rank_step_consistent(group, step) as evaluated on one rank;
\* step maps every rank to the step it passes.
verify_all_rank_step_consistent(group, self, step) ==
    IF group = {} THEN TRUE
    ELSE LET t == [q \in group |-> Float32(step[q])]
             outputs == all_gather(group, t)
         IN \A i \in 1..Len(outputs) : outputs[i] = outputs[1]

-----------------------------------------------------------------------------
(* SharedLock and SharedMemoryHandler *)

\* SharedLock.acquire(blocking=False)
TryAcquire(lock, who) == IF lock = Free THEN who ELSE lock

\* SharedLock.release(): the lock is free afterwards, whoever held it
Release(lock) == Free

\* SharedMemoryHandler.save_state_dict(state_dict, conf)
save_state_dict(sd, step) == [step |-> step, payload |-> sd]

\* SharedMemoryHandler.get_checkpoint_config(default_config).step
get_checkpoint_config(region) == region.step

\* SharedMemoryHandler.load_state_dict()
load_state_dict(region) == region.payload

-----------------------------------------------------------------------------
\* The deployments of the engine that are explored: the processes of the job,
\* whether torch.distributed is initialized, the shards of a node, the ranks
\* of _saver_group ({} for None) and the steps the training loop saves at.
Deployment(w, d, n, g, s) ==
    [world |-> w, dist |-> d, shards |-> n, group |-> g, steps |-> s]

Deployments ==
    {   \* one node, no torch.distributed: rank 1 writes, rank 2 only loads
        Deployment({1, 2}, FALSE, 1, {}, SmallSteps),
        Deployment({1, 2}, FALSE, 1, {}, LargeSteps),
        \* one node, replicated state: the group of the local-rank-0 ranks
        Deployment({1, 2}, TRUE, 1, {1}, SmallSteps),
        Deployment({1, 2}, TRUE, 1, {}, SmallSteps),
        \* one node, sharded state: every rank writes its own shard
        Deployment({1, 2}, TRUE, 2, {1, 2}, SmallSteps),
        Deployment({1, 2}, TRUE, 2, {1, 2}, LargeSteps),
        \* two nodes, replicated state
        Deployment({1, 3}, TRUE, 1, {1, 3}, SmallSteps),
        Deployment({1, 3}, TRUE, 1, {}, SmallSteps) }

Init ==
    /\ \E d \in Deployments :
        /\ world = d.world
        /\ dist_initialized = d.dist
        /\ local_shard_num = d.shards
        /\ saver_group = d.group
        /\ train_steps = d.steps
    /\ pc = [p \in Procs |-> "none"]
    /\ restart_count = [p \in Procs |-> 0]
    /\ cached_step = [p \in Procs |-> 0]
    /\ acquired = [p \in Procs |-> FALSE]
    /\ all_rank_ready = [p \in Procs |-> FALSE]
    /\ conf_step = [p \in Procs |-> 0]
    /\ state_dict = [p \in Procs |-> {}]
    /\ config_step = [p \in Procs |-> 0]
    /\ ret = [p \in Procs |-> "none"]
    /\ state_dict_out = [p \in Procs |-> {}]
    /\ shm_lock = [l \in Nodes \X Shards |-> Free]
    /\ shm = [l \in Nodes \X Shards |-> EmptyRegion]
    /\ saver = [l \in Nodes \X Shards |-> FALSE]
    /\ factory = [n \in Nodes |-> <<>>]
    /\ event_queue = [n \in Nodes |-> <<>>]
    /\ round_failed = [p \in Procs |-> FALSE]
    /\ pre_shm = [p \in Procs |-> EmptyRegion]
    /\ forced = FALSE

-----------------------------------------------------------------------------
(* CheckpointEngine.__init__ *)

\* _notify_agent_to_create_saver: what it leaves in the lock of the process
NotifyLock(p, lock) ==
    IF LocalRank(p) /= 0 THEN lock
    ELSE IF restart_count[p] > 0 THEN Release(lock)
    ELSE lock

\* _notify_agent_to_create_saver: what it puts on the queue "factory"
NotifyPutsOnRestart(p) ==
    IF LocalRank(p) /= 0 THEN <<>>
    ELSE << [class_meta |-> "SaverClassMeta",
             local_shard_num |-> get_local_shard_num,
             global_shard_num |-> get_global_shard_num,
             local_rank |-> LocalRank(p),
             restart_count |-> restart_count[p]] >>

NotifyPuts(p) ==
    IF LocalRank(p) /= 0 THEN <<>>
    ELSE IF restart_count[p] > 0 THEN <<>>
    ELSE << [class_meta |-> "SaverClassMeta",
             local_shard_num |-> get_local_shard_num,
             global_shard_num |-> get_global_shard_num,
             local_rank |-> LocalRank(p),
             restart_count |-> restart_count[p]] >>

\* self._event_queue is bound by rank 0 only and is None on the other ranks
HasEventQueue(p) == Rank(p) = 0

\* _update_saver_config: what it puts on the event queue
UpdatePutsFirstStart(p) ==
    IF LocalRank(p) = 0 /\ restart_count[p] = 0
    THEN << [type |-> "UPDATE_SHARD",
             global_shard_num |-> get_global_shard_num,
             local_rank |-> LocalRank(p),
             restart_count |-> restart_count[p]] >>
    ELSE <<>>

UpdatePuts(p) ==
    IF LocalRank(p) = 0
    THEN << [type |-> "UPDATE_SHARD",
             global_shard_num |-> get_global_shard_num,
             local_rank |-> LocalRank(p),
             restart_count |-> restart_count[p]] >>
    ELSE <<>>

\* _update_saver_config calls put on None: AttributeError
UpdateRaises(p) == LocalRank(p) = 0 /\ ~HasEventQueue(p)

\* the restarts the elastic agent has made so far
Restarts == SumOver(restart_count, Procs)

\* The elastic agent starts the process with the next restart count.
Restarted(p) == [restart_count EXCEPT ![p] = @ + 1]

\* the locals of a call that has ended (acquired is kept until the next call)
EndLocals(p) ==
    /\ all_rank_ready' = [all_rank_ready EXCEPT ![p] = FALSE]
    /\ conf_step' = [conf_step EXCEPT ![p] = 0]
    /\ state_dict' = [state_dict EXCEPT ![p] = {}]
    /\ config_step' = [config_step EXCEPT ![p] = 0]

ResetLocals(p) ==
    /\ acquired' = [acquired EXCEPT ![p] = FALSE]
    /\ EndLocals(p)

\* __init__ up to the return of _notify_agent_to_create_saver
Construct(p) ==
    /\ p \in world
    /\ pc[p] = "none"
    /\ restart_count[p] <= MaxRestarts
    /\ cached_step' = [cached_step EXCEPT ![p] = 0]
    /\ shm_lock' = [shm_lock EXCEPT ![ShardOf(p)] = NotifyLock(p, @)]
    /\ forced' = (forced \/ (NotifyLock(p, SaverId) /= SaverId /\ saver[ShardOf(p)]))
    /\ factory' = [factory EXCEPT ![Node(p)] = @ \o NotifyPuts(p)]
    /\ pc' = [pc EXCEPT ![p] = "update_saver_config"]
    /\ ret' = [ret EXCEPT ![p] = "none"]
    /\ state_dict_out' = [state_dict_out EXCEPT ![p] = {}]
    /\ ResetLocals(p)
    /\ round_failed' = [round_failed EXCEPT ![p] = FALSE]
    /\ pre_shm' = [pre_shm EXCEPT ![p] = EmptyRegion]
    /\ UNCHANGED <<deploy, restart_count, shm, saver, event_queue>>

\* the call of _update_saver_config that ends __init__: the engine exists
\* afterwards, or the AttributeError ends the process and the agent restarts
\* it
UpdateSaverConfig(p) ==
    /\ pc[p] = "update_saver_config"
    /\ IF UpdateRaises(p)
       THEN /\ pc' = [pc EXCEPT ![p] = "none"]
            /\ ret' = [ret EXCEPT ![p] = "AttributeError"]
            /\ restart_count' = Restarted(p)
            /\ event_queue' = event_queue
       ELSE /\ pc' = [pc EXCEPT ![p] = "idle"]
            /\ ret' = ret
            /\ restart_count' = restart_count
            /\ event_queue' = [event_queue EXCEPT ![Node(p)] = @ \o UpdatePuts(p)]
    /\ UNCHANGED <<deploy, cached_step, locals, state_dict_out, shm_lock, shm,
                   saver, factory, history>>

\* The process dies (or is killed by the agent) wherever it is; a lock it
\* holds stays locked.
Crash(p) ==
    /\ pc[p] /= "none"
    /\ Restarts < MaxRestarts
    /\ pc' = [pc EXCEPT ![p] = "none"]
    /\ restart_count' = Restarted(p)
    /\ ret' = [ret EXCEPT ![p] = "none"]
    /\ state_dict_out' = [state_dict_out EXCEPT ![p] = {}]
    /\ ResetLocals(p)
    /\ round_failed' = [round_failed EXCEPT ![p] = FALSE]
    /\ pre_shm' = [pre_shm EXCEPT ![p] = EmptyRegion]
    /\ UNCHANGED <<deploy, cached_step, shm_lock, shm, saver, queues, forced>>

-----------------------------------------------------------------------------
(* CheckpointEngine.save_to_memory / save_state_dict_to_memory *)

Return(p, how) ==
    /\ pc' = [pc EXCEPT ![p] = "idle"]
    /\ ret' = [ret EXCEPT ![p] = how]

\* save_state_dict_to_memory raises ValueError for this state dict
RaisesValueError(sd) == HasKey(sd, DLROVER_CKPT_CONFIG_KEY)

\* The lock when the ValueError leaves the call: the key is checked before
\* the lock is tried.
LockAtRaiseTried(p, lock) == TryAcquire(lock, p)

LockAtRaise(p, lock) == lock

\* The call up to the reduction of check_all_rank_ready.
SaveCall(p, step, sd) ==
    /\ pc[p] = "idle"
    /\ state_dict_out' = [state_dict_out EXCEPT ![p] = {}]
    /\ round_failed' = [round_failed EXCEPT ![p] = FALSE]
    /\ IF ~IsWriter(p)
       THEN /\ Return(p, "noop")
            /\ UNCHANGED <<locals, shm_lock, pre_shm>>
       ELSE IF RaisesValueError(sd)
       THEN /\ Return(p, "ValueError")
            /\ shm_lock' = [shm_lock EXCEPT ![ShardOf(p)] = LockAtRaise(p, @)]
            /\ UNCHANGED <<locals, pre_shm>>
       ELSE LET got == shm_lock[ShardOf(p)] = Free IN
            /\ shm_lock' = [shm_lock EXCEPT ![ShardOf(p)] = TryAcquire(@, p)]
            /\ acquired' = [acquired EXCEPT ![p] = got]
            /\ conf_step' = [conf_step EXCEPT ![p] = step]
            /\ state_dict' = [state_dict EXCEPT ![p] = sd]
            /\ pre_shm' = [pre_shm EXCEPT ![p] = shm[ShardOf(p)]]
            /\ ret' = [ret EXCEPT ![p] = "none"]
            /\ IF GroupOf(p) = {}
               THEN /\ all_rank_ready' = [all_rank_ready EXCEPT ![p] =
                          check_all_rank_ready({}, p, [acquired EXCEPT ![p] = got])]
                    /\ pc' = [pc EXCEPT ![p] = "checked"]
               ELSE /\ all_rank_ready' = all_rank_ready
                    /\ pc' = [pc EXCEPT ![p] = "all_reduce"]
            /\ UNCHANGED config_step
    /\ UNCHANGED <<deploy, restart_count, cached_step, shm, saver, queues, forced>>

\* dist.all_reduce completes once every rank of the group has joined it.
AllReduce(group) ==
    /\ group /= {}
    /\ group = saver_group
    /\ \A q \in group : pc[q] = "all_reduce"
    /\ all_rank_ready' = [q \in Procs |->
          IF q \in group THEN check_all_rank_ready(group, q, acquired)
          ELSE all_rank_ready[q]]
    /\ round_failed' = [q \in Procs |->
          IF q \in group THEN (\E r \in group : ~acquired[r])
          ELSE round_failed[q]]
    /\ pc' = [q \in Procs |-> IF q \in group THEN "checked" ELSE pc[q]]
    /\ UNCHANGED <<deploy, restart_count, cached_step, acquired, conf_step,
                   state_dict, config_step, results, shm_lock, shm, saver, queues,
                   pre_shm, forced>>

\* if acquired: self._shm_lock.release()
ReleaseAlways(p, lock) == Release(lock)

ReleaseIfAcquired(p, lock) == IF acquired[p] THEN Release(lock) ELSE lock

\* if not all_rank_ready: the call skips the write
SkipsWriteLocal(p) == ~acquired[p]

SkipsWriteNever(p) == FALSE

SkipsWrite(p) == ~all_rank_ready[p]

\* if not all_rank_ready: release and return
SkipSave(p) ==
    /\ pc[p] = "checked"
    /\ SkipsWrite(p)
    /\ shm_lock' = [shm_lock EXCEPT ![ShardOf(p)] = ReleaseIfAcquired(p, @)]
    /\ Return(p, "skipped")
    /\ EndLocals(p)
    /\ UNCHANGED <<deploy, restart_count, cached_step, acquired, state_dict_out, shm,
                   saver, queues, history>>

\* dist.barrier(group=self._saver_group) waits for this group
BarrierGroupWorld(p) == world

BarrierGroup(p) == IF GroupOf(p) = {} THEN world ELSE GroupOf(p)

\* if dist.is_initialized(): dist.barrier(group=self._saver_group)
CallsBarrierNever(p) == FALSE

CallsBarrier(p) == dist_initialized

\* self._cached_step = conf.step
CachedStepKept(p) == cached_step[p]

CachedStepZero(p) == 0

CachedStep(p) == conf_step[p]

\* self._shm_handler.save_state_dict(state_dict, conf)
WriteSave(p) ==
    /\ pc[p] = "checked"
    /\ ~SkipsWrite(p)
    /\ shm' = [shm EXCEPT ![ShardOf(p)] =
                  save_state_dict(state_dict[p], conf_step[p])]
    /\ pc' = [pc EXCEPT ![p] = "written"]
    /\ UNCHANGED <<deploy, restart_count, cached_step, locals, results, shm_lock,
                   saver, queues, history>>

\* if acquired: self._shm_lock.release(), after the write
ReleaseSave(p) ==
    /\ pc[p] = "written"
    /\ shm_lock' = [shm_lock EXCEPT ![ShardOf(p)] = ReleaseIfAcquired(p, @)]
    /\ pc' = [pc EXCEPT ![p] = "released"]
    /\ UNCHANGED <<deploy, restart_count, cached_step, locals, results, shm,
                   saver, queues, history>>

\* self._cached_step = conf.step, then the barrier or the return
CacheStep(p) ==
    /\ pc[p] = "released"
    /\ cached_step' = [cached_step EXCEPT ![p] = CachedStep(p)]
    /\ IF CallsBarrier(p)
       THEN /\ pc' = [pc EXCEPT ![p] = "barrier"]
            /\ ret' = ret
       ELSE Return(p, "saved")
    /\ EndLocals(p)
    /\ UNCHANGED <<deploy, restart_count, acquired, state_dict_out, shm_lock, shm,
                   saver, queues, history>>

\* save_state_dict raises: the exception leaves save_state_dict_to_memory
\* before the release.
WriteRaises(p) ==
    /\ pc[p] = "checked"
    /\ ~SkipsWrite(p)
    /\ Return(p, "RuntimeError")
    /\ EndLocals(p)
    /\ UNCHANGED <<deploy, restart_count, cached_step, acquired, state_dict_out, shm_lock,
                   shm, saver, queues, history>>

\* dist.barrier completes once every rank of its group has joined it.
Barrier(group) ==
    /\ group /= {}
    /\ \A q \in group : pc[q] = "barrier" /\ BarrierGroup(q) = group
    /\ pc' = [q \in Procs |-> IF q \in group THEN "idle" ELSE pc[q]]
    /\ ret' = [q \in Procs |-> IF q \in group THEN "saved" ELSE ret[q]]
    /\ UNCHANGED <<deploy, restart_count, cached_step, locals, state_dict_out,
                   shm_lock, shm, saver, queues, history>>

-----------------------------------------------------------------------------
(* CheckpointEngine.get_state_dict_from_memory *)

ReturnState(p, sd) ==
    /\ pc' = [pc EXCEPT ![p] = "idle"]
    /\ ret' = [ret EXCEPT ![p] = "state_dict"]
    /\ state_dict_out' = [state_dict_out EXCEPT ![p] = sd]

\* if config.step == 0: return state_dict
ReturnsEmptyOnStep(step) == step /= 0

ReturnsEmpty(step) == step = 0

\* The call up to the gather of verify_all_rank_step_consistent.
LoadCall(p) ==
    /\ pc[p] = "idle"
    /\ LET step == get_checkpoint_config(shm[ShardOf(p)]) IN
       IF ReturnsEmpty(step)
       THEN /\ ReturnState(p, {})
            /\ UNCHANGED config_step
       ELSE /\ config_step' = [config_step EXCEPT ![p] = step]
            /\ ret' = [ret EXCEPT ![p] = "none"]
            /\ state_dict_out' = [state_dict_out EXCEPT ![p] = {}]
            /\ pc' = [pc EXCEPT ![p] =
                  IF GroupOf(p) = {} THEN "load_state_dict" ELSE "all_gather"]
    /\ UNCHANGED <<deploy, restart_count, cached_step, acquired, all_rank_ready,
                   conf_step, state_dict, shm_lock, shm, saver, queues, history>>

\* dist.all_gather completes once every rank of the group has joined it;
\* a rank that did not pass returns the empty state dict.
AllGather(group) ==
    /\ group /= {}
    /\ group = saver_group
    /\ \A q \in group : pc[q] = "all_gather"
    /\ LET passed == [q \in group |->
               verify_all_rank_step_consistent(group, q, config_step)] IN
       /\ pc' = [q \in Procs |->
             IF q \notin group THEN pc[q]
             ELSE IF passed[q] THEN "load_state_dict" ELSE "idle"]
       /\ ret' = [q \in Procs |->
             IF q \in group /\ ~passed[q] THEN "state_dict" ELSE ret[q]]
       /\ config_step' = [q \in Procs |->
             IF q \in group /\ ~passed[q] THEN 0 ELSE config_step[q]]
    /\ UNCHANGED <<deploy, restart_count, cached_step, acquired, all_rank_ready,
                   conf_step, state_dict, state_dict_out, shm_lock, shm, saver,
                   queues, history>>

\* if passed: state_dict = self._shm_handler.load_state_dict()
LoadStateDict(p) ==
    /\ pc[p] = "load_state_dict"
    /\ ReturnState(p, load_state_dict(shm[ShardOf(p)]))
    /\ UNCHANGED <<deploy, restart_count, cached_step, locals, shm_lock, shm,
                   saver, queues, history>>

-----------------------------------------------------------------------------
(* The Saver of the node's agent *)

\* The Saver exists once the agent has taken its class from "factory".
SaverCreated(n) == factory[n] /= <<>>

\* The Saver takes the lock of a shard to copy its region to the storage.
SaverAcquire(l) ==
    /\ SaverCreated(l[1])
    /\ l[2] < local_shard_num
    /\ ~saver[l]
    /\ shm_lock[l] = Free
    /\ shm_lock' = [shm_lock EXCEPT ![l] = TryAcquire(@, SaverId)]
    /\ saver' = [saver EXCEPT ![l] = TRUE]
    /\ UNCHANGED <<deploy, pc, restart_count, cached_step, locals, results, shm,
                   queues, history>>

SaverRelease(l) ==
    /\ saver[l]
    /\ shm_lock' = [shm_lock EXCEPT ![l] = Release(@)]
    /\ saver' = [saver EXCEPT ![l] = FALSE]
    /\ UNCHANGED <<deploy, pc, restart_count, cached_step, locals, results, shm,
                   queues, history>>

-----------------------------------------------------------------------------
\* the state dicts a caller passes at a step: with and without the reserved key
StateDicts(step) ==
    {StateDictAt(step), StateDictAt(step) \cup {<<DLROVER_CKPT_CONFIG_KEY, 0>>}}

\* save_to_memory(step, state_dict) as the training loop calls it
save_to_memory(p) ==
    \E step \in train_steps : \E sd \in StateDicts(step) : SaveCall(p, step, sd)

\* what happens while no process crashes
Running ==
    \/ \E p \in Procs : Construct(p)
    \/ \E p \in Procs : UpdateSaverConfig(p)
    \/ \E p \in Procs : save_to_memory(p)
    \/ \E group \in SUBSET Procs : AllReduce(group)
    \/ \E p \in Procs : SkipSave(p)
    \/ \E p \in Procs : WriteSave(p)
    \/ \E p \in Procs : WriteRaises(p)
    \/ \E p \in Procs : ReleaseSave(p)
    \/ \E p \in Procs : CacheStep(p)
    \/ \E group \in SUBSET Procs : Barrier(group)
    \/ \E p \in Procs : LoadCall(p)
    \/ \E group \in SUBSET Procs : AllGather(group)
    \/ \E p \in Procs : LoadStateDict(p)
    \/ \E l \in Nodes \X Shards : SaverAcquire(l)
    \/ \E l \in Nodes \X Shards : SaverRelease(l)

Next ==
    \/ Running
    \/ \E p \in Procs : Crash(p)

Spec == Init /\ [][Next]_vars

\* A running process goes on with the call it is in, and a collective
\* completes once every rank of its group has joined it.  Nothing makes the
\* training loop call, the Saver release, or the agent restart.
Progress ==
    /\ \A p \in Procs : WF_vars(SkipSave(p))
    /\ \A p \in Procs : WF_vars(UpdateSaverConfig(p))
    /\ \A p \in Procs : WF_vars(WriteSave(p) \/ WriteRaises(p))
    /\ \A p \in Procs : WF_vars(ReleaseSave(p))
    /\ \A p \in Procs : WF_vars(CacheStep(p))
    /\ \A p \in Procs : WF_vars(LoadStateDict(p))
    /\ WF_vars(\E group \in SUBSET Procs : AllReduce(group))
    /\ WF_vars(\E group \in SUBSET Procs : Barrier(group))
    /\ WF_vars(\E group \in SUBSET Procs : AllGather(group))

\* the executions without a crash, under Progress
SpecLive == Init /\ [][Running]_vars /\ Progress

TypeOK ==
    /\ pc \in [Procs -> {"none", "update_saver_config", "idle", "all_reduce",
                         "checked", "written", "released", "barrier",
                         "all_gather", "load_state_dict"}]
    /\ restart_count \in [Procs -> 0..(MaxRestarts + 1)]
    /\ cached_step \in [Procs -> Steps]
    /\ shm_lock \in [Nodes \X Shards -> Procs \cup {Free, SaverId}]
    /\ \A l \in Nodes \X Shards : shm[l].step \in Steps

-----------------------------------------------------------------------------
(* Who is inside the critical section of a shard *)

\* The engine is between its successful try-acquire and its release.
Holds(p) == acquired[p] /\ pc[p] \in {"all_reduce", "checked", "written"}

\* The engine will write, or is writing, its staging region.
Writing(p) == pc[p] = "checked" /\ ~SkipsWrite(p)

Holders(l) ==
    {p \in Procs : ShardOf(p) = l /\ Holds(p)}
        \cup (IF saver[l] THEN {SaverId} ELSE {})

Returned(p, how) == pc[p] = "idle" /\ ret[p] = how

-----------------------------------------------------------------------------
(* C1 *)

\* C1: all-or-nothing write.  When some rank of the group failed its
\* try-acquire in a round of save_to_memory, no rank of the group writes its
\* region in that round: a rank that has the result of the reduction is about
\* to skip, its region is the one it had when the call began, the call ends
\* as skipped, and a rank that had acquired its lock no longer holds it once
\* the call has ended.
C1_AllOrNothing ==
    \A p \in saver_group :
        round_failed[p] =>
            /\ pc[p] \notin {"written", "released", "barrier"}
            /\ pc[p] = "checked" => ~Writing(p)
            /\ shm[ShardOf(p)] = pre_shm[p]
            /\ ret[p] \notin {"saved", "RuntimeError"}
            /\ (pc[p] /= "checked" /\ acquired[p]) => shm_lock[ShardOf(p)] /= p

\* Two ranks of a group have skipped the same round: one had acquired its
\* lock, the other had not.
C1_Witness ==
    \E p \in saver_group, q \in saver_group :
        /\ round_failed[p] /\ Returned(p, "skipped") /\ acquired[p]
        /\ round_failed[q] /\ Returned(q, "skipped") /\ ~acquired[q]
        /\ shm_lock[ShardOf(p)] = Free

-----------------------------------------------------------------------------
(* C2 *)

\* C2 as stated: in every interleaving, restarts with RestartCount > 0
\* included, a shard lock has at most one holder, and the engine never writes
\* a region the Saver is reading.
C2_MutualExclusion ==
    \A l \in Nodes \X Shards :
        /\ Cardinality(Holders(l)) <= 1
        /\ \A p \in Procs : (ShardOf(p) = l /\ Writing(p)) => ~saver[l]

\* C2 amended: as long as no engine constructed with RestartCount > 0 has
\* force-released a lock that the Saver was holding, a shard lock has at most
\* one holder, the lock records that holder, and the engine never writes a
\* region the Saver is reading.
C2_MutualExclusionUnlessForced ==
    ~forced =>
        \A l \in Nodes \X Shards :
            /\ Cardinality(Holders(l)) <= 1
            /\ \A h \in Holders(l) : shm_lock[l] = h
            /\ \A p \in Procs : (ShardOf(p) = l /\ Writing(p)) => ~saver[l]

\* A restarted writer has tried the lock while the Saver was draining the
\* region, and did not get it.
C2_Witness ==
    \E p \in Procs :
        /\ ~forced
        /\ restart_count[p] > 0
        /\ pc[p] = "checked"
        /\ ~acquired[p]
        /\ saver[ShardOf(p)]

-----------------------------------------------------------------------------
(* C3 *)

\* C3 as stated: the step in the header of a staging region never decreases.
C3_MonotonicStep ==
    [][\A l \in Nodes \X Shards : shm'[l].step >= shm[l].step]_vars

\* C3 amended: a staging region changes only when its designated writer, in
\* a call for which every rank of the group had acquired its lock, writes it,
\* and the header then holds the step of that call, whether or not it is
\* lower than the step staged before: the engine rejects no step.  The call
\* then records that step as its cached step.
C3_StepOfLastAgreedCall ==
    [][/\ \A l \in Nodes \X Shards :
            shm'[l] /= shm[l] =>
               \E p \in Procs :
                   /\ ShardOf(p) = l
                   /\ IsWriter(p)
                   /\ pc[p] = "checked"
                   /\ acquired[p]
                   /\ ~round_failed[p]
                   /\ shm'[l].step = conf_step[p]
       /\ \A p \in Procs :
            (pc[p] = "released" /\ pc'[p] \in {"barrier", "idle"}) =>
               /\ shm[ShardOf(p)].step = conf_step[p]
               /\ cached_step'[p] = conf_step[p]]_vars

\* A call has staged a step lower than the step that was staged before it.
C3_Witness ==
    \E p \in Procs :
        /\ Returned(p, "saved")
        /\ shm[ShardOf(p)].step = cached_step[p]
        /\ pre_shm[p].step > shm[ShardOf(p)].step

-----------------------------------------------------------------------------
(* C4 *)

\* C4: a rank of the group that is past verify_all_rank_step_consistent and
\* loads the state from its region has a non-zero step, and the header of
\* every rank of the group holds that same step.
C4_LoadConsistency ==
    \A p \in saver_group :
        pc[p] = "load_state_dict" =>
            /\ config_step[p] /= 0
            /\ \A q \in saver_group : shm[ShardOf(q)].step = config_step[p]

-----------------------------------------------------------------------------
(* C5 *)

\* C5: once the engine of a shard's designated writer has been constructed
\* with RestartCount > 0, the lock of the shard is not left locked by the
\* instance of the writer that crashed.
C5_RestartRecovery ==
    \A p \in Procs :
        (IsWriter(p) /\ restart_count[p] > 0 /\ pc[p] = "idle" /\ ret[p] = "none")
            => shm_lock[ShardOf(p)] /= p

-----------------------------------------------------------------------------
(* C6 *)

\* the local-rank-0 processes of a node that have been started
Started(n) ==
    {p \in world : Node(p) = n /\ LocalRank(p) = 0
                     /\ (pc[p] /= "none" \/ restart_count[p] > 0)}

\* C6: whatever the number of restarts, the queue "factory" of a node has
\* received at most one SaverClassMeta, exactly one once the local-rank-0
\* process of the node has been started, and it was put by a process with
\* local rank 0 and RestartCount 0.
C6_BootstrapOnce ==
    \A n \in Nodes :
        /\ Len(factory[n]) <= 1
        /\ Started(n) /= {} => Len(factory[n]) = 1
        /\ \A i \in 1..Len(factory[n]) :
              factory[n][i].local_rank = 0 /\ factory[n][i].restart_count = 0

\* Both processes of a node have engines, the local-rank-0 one after a
\* restart, and the queue has the one descriptor of the first start.
C6_Witness ==
    \E p \in world, q \in world :
        /\ Node(p) = Node(q) /\ LocalRank(p) = 0 /\ LocalRank(q) /= 0
        /\ restart_count[p] > 0 /\ pc[p] = "idle" /\ pc[q] = "idle"
        /\ Len(factory[Node(p)]) = 1

-----------------------------------------------------------------------------
(* C7 *)

\* Every rank of the group is in the reduction of one round of
\* save_to_memory, and the Saver holds the lock that a rank of the group has
\* tried in vain.
SaverBlocksRound ==
    /\ saver_group /= {}
    /\ \A q \in saver_group : pc[q] = "all_reduce"
    /\ \E q \in saver_group : saver[ShardOf(q)] /\ ~acquired[q]

SkippedUnchanged(p) ==
    /\ Returned(p, "skipped")
    /\ shm[ShardOf(p)] = pre_shm[p]

\* C7: when the Saver holds the lock of a shard of the group during a round
\* of save_to_memory, every rank of the group returns from the call having
\* written nothing, even if the Saver never releases the lock.
C7_SkipNeverBlocks ==
    \A p \in Procs :
        (p \in saver_group /\ SaverBlocksRound) ~> SkippedUnchanged(p)

\* Both ranks of a group have skipped a round while the Saver still holds
\* the lock that one of them had tried.
C7_Witness ==
    \E p \in saver_group, q \in saver_group :
        /\ p /= q
        /\ SkippedUnchanged(p) /\ acquired[p]
        /\ SkippedUnchanged(q) /\ ~acquired[q]
        /\ saver[ShardOf(q)]
        /\ shm_lock[ShardOf(q)] = SaverId

-----------------------------------------------------------------------------
(* C8 *)

\* C8: when a rank of the group has returned from a save_to_memory that
\* wrote, no rank of the group is still before its write of that round or
\* holds the lock it took in that round (a rank that holds its lock has
\* begun its next call), and the region of every rank that is at or past the
\* barrier holds the step that rank wrote.
C8_BarrierOrdering ==
    \A p \in saver_group :
        Returned(p, "saved") =>
            \A q \in saver_group :
                /\ pc[q] \notin {"checked", "written", "released"}
                /\ Holds(q) => (pc[q] = "all_reduce" /\ ret[q] = "none")
                /\ (pc[q] = "barrier" \/ Returned(q, "saved"))
                      => shm[ShardOf(q)].step = cached_step[q]

\* Two ranks of a group have returned from a round that wrote a new step on
\* both regions.
C8_Witness ==
    \E p \in saver_group, q \in saver_group :
        /\ p /= q
        /\ Returned(p, "saved") /\ Returned(q, "saved")
        /\ shm[ShardOf(p)].step = cached_step[p] /\ cached_step[p] /= pre_shm[p].step
        /\ shm[ShardOf(q)].step = cached_step[q] /\ cached_step[q] /= pre_shm[q].step

-----------------------------------------------------------------------------
(* C9 *)

\* C9: a save_to_memory call that ends with the ValueError of the reserved
\* key changes no lock, no staging region and no cached step, and records no
\* acquisition.
C9_InvalidState ==
    [][\A p \in Procs :
         (ret[p] /= "ValueError" /\ ret'[p] = "ValueError")
            => /\ pc[p] = "idle" /\ pc'[p] = "idle"
               /\ UNCHANGED <<shm_lock, shm, cached_step, acquired>>]_vars

\* A writer that has staged a step got the ValueError while its lock was
\* free.
C9_Witness ==
    \E p \in Procs :
        /\ Returned(p, "ValueError")
        /\ IsWriter(p)
        /\ cached_step[p] > 0
        /\ shm[ShardOf(p)].step = cached_step[p]
        /\ shm_lock[ShardOf(p)] = Free

-----------------------------------------------------------------------------
(* C10 *)

\* a process that runs alone: no torch.distributed, no group, one shard
SingleRank(p) ==
    /\ ~dist_initialized
    /\ GroupOf(p) = {}
    /\ local_shard_num = 1
    /\ IsWriter(p)

\* C10: for a single rank, after a save_to_memory that wrote, the header
\* holds the step of the call and the region the state dict of the call; a
\* get_state_dict_from_memory then returns the empty dict when the header
\* step is 0 and the staged state dict otherwise.
C10_RoundTrip ==
    \A p \in Procs :
        SingleRank(p) =>
            /\ Returned(p, "saved") =>
                  /\ shm[ShardOf(p)].step = cached_step[p]
                  /\ shm[ShardOf(p)].payload = StateDictAt(cached_step[p])
            /\ Returned(p, "state_dict") =>
                  state_dict_out[p] =
                      IF shm[ShardOf(p)].step = 0 THEN {}
                      ELSE StateDictAt(shm[ShardOf(p)].step)

\* A single rank has loaded the state dict it staged at a non-zero step.
C10_Witness ==
    \E p \in Procs :
        /\ SingleRank(p)
        /\ Returned(p, "state_dict")
        /\ cached_step[p] > 0
        /\ shm[ShardOf(p)].step = cached_step[p]
        /\ state_dict_out[p] = StateDictAt(cached_step[p])

-----------------------------------------------------------------------------
(* C11 *)

\* The step of p begins CheckpointEngine.__init__ and runs it up to the
\* return of _notify_agent_to_create_saver.
Notifies(p) == pc[p] = "none" /\ pc'[p] = "update_saver_config"

\* The step of p ends CheckpointEngine.__init__: with an engine, or with the
\* exception of _update_saver_config.
Constructs(p) ==
    /\ pc[p] = "update_saver_config"
    /\ (pc'[p] = "idle" \/ ret'[p] = "AttributeError")

\* the SaverClassMeta that the process puts on "factory"
Descriptor(p) ==
    [class_meta |-> "SaverClassMeta",
     local_shard_num |-> get_local_shard_num,
     global_shard_num |-> get_global_shard_num,
     local_rank |-> LocalRank(p),
     restart_count |-> restart_count[p]]

\* the UPDATE_SHARD event that the process puts on the event queue
UpdateShardEvent(p) ==
    [type |-> "UPDATE_SHARD",
     global_shard_num |-> get_global_shard_num,
     local_rank |-> LocalRank(p),
     restart_count |-> restart_count[p]]

\* C11: on a first start (RestartCount = 0) the construction of the engine
\* completes in every process; a local-rank-0 process, on any node and with
\* any global rank, first puts the SaverClassMeta on "factory" and then one
\* UPDATE_SHARD event with global_shard_num on the event queue; a process
\* with another local rank puts nothing on either queue.
C11_FirstStartBootstrap ==
    [][\A p \in Procs :
         /\ (Notifies(p) /\ restart_count[p] = 0) =>
               /\ UNCHANGED event_queue
               /\ IF LocalRank(p) = 0
                  THEN factory' = [factory EXCEPT ![Node(p)] =
                                      Append(@, Descriptor(p))]
                  ELSE UNCHANGED factory
         /\ (Constructs(p) /\ restart_count[p] = 0) =>
               /\ pc'[p] = "idle"
               /\ UNCHANGED factory
               /\ IF LocalRank(p) = 0
                  THEN event_queue' = [event_queue EXCEPT ![Node(p)] =
                                          Append(@, UpdateShardEvent(p))]
                  ELSE UNCHANGED event_queue]_vars

-----------------------------------------------------------------------------
(* C12 *)

\* the step of p belongs to the construction of an engine in a local-rank-0
\* process with RestartCount > 0
RestartStep(p) ==
    /\ LocalRank(p) = 0
    /\ restart_count[p] > 0
    /\ Notifies(p) \/ Constructs(p)

\* C12 as stated: the construction of the engine in a local-rank-0 process
\* with RestartCount > 0 releases the lock of the shard and puts nothing on
\* "factory" and nothing on the event queue.
C12_RestartSendsNothing ==
    [][\A p \in Procs :
         RestartStep(p) =>
            /\ Notifies(p) => shm_lock'[ShardOf(p)] = Free
            /\ UNCHANGED queues]_vars

\* C12 amended: the construction of the engine in a local-rank-0 process
\* with RestartCount > 0 releases the lock of the shard and puts nothing on
\* "factory"; it then still runs _update_saver_config: with global rank 0 it
\* puts one UPDATE_SHARD event with global_shard_num on the event queue and
\* completes; with another global rank the call fails on the unbound queue
\* as it does on a first start (C11), so nothing is put and no engine exists.
C12_RestartSendsUpdateOnly ==
    [][\A p \in Procs :
         RestartStep(p) =>
            /\ UNCHANGED factory
            /\ Notifies(p) =>
                  /\ shm_lock'[ShardOf(p)] = Free
                  /\ UNCHANGED event_queue
            /\ Constructs(p) =>
                  /\ UNCHANGED shm_lock
                  /\ IF HasEventQueue(p)
                     THEN /\ pc'[p] = "idle"
                          /\ event_queue' = [event_queue EXCEPT ![Node(p)] =
                                                Append(@, UpdateShardEvent(p))]
                     ELSE /\ pc'[p] = "none"
                          /\ UNCHANGED event_queue]_vars

\* A restarted local-rank-0 process has its engine: its lock is free,
\* "factory" has the one descriptor of the first start, and the event queue
\* has the event of the first start and the event of the restart.
C12_Witness ==
    \E p \in world :
        /\ LocalRank(p) = 0 /\ restart_count[p] > 0
        /\ pc[p] = "idle" /\ ret[p] = "none"
        /\ shm_lock[ShardOf(p)] = Free
        /\ Len(factory[Node(p)]) = 1
        /\ Len(event_queue[Node(p)]) = 2
        /\ event_queue[Node(p)][2].restart_count > 0

-----------------------------------------------------------------------------
(* C13 *)

\* the step completes the reduction of check_all_rank_ready for the group
Reduces(group) ==
    /\ group /= {}
    /\ group = saver_group
    /\ \A q \in group : pc[q] = "all_reduce" /\ pc'[q] = "checked"

\* the step is check_all_rank_ready of p without a group
ChecksAlone(p) == pc[p] = "idle" /\ pc'[p] = "checked"

\* C13: check_all_rank_ready gives every rank of a group TRUE exactly when
\* every rank of the group voted TRUE, for every assignment of votes, and
\* without a group it gives the local vote.  Whenever the engine evaluates
\* it, the result it stores is that value for the votes of the call.
C13_AllAgree ==
    [][/\ \A group \in SUBSET Procs :
            Reduces(group) =>
               /\ \A q \in group :
                     all_rank_ready'[q] = (\A r \in group : acquired[r])
               /\ \A g \in SUBSET Procs, ready \in [Procs -> BOOLEAN] :
                     \A q \in g :
                        check_all_rank_ready(g, q, ready) = (\A r \in g : ready[r])
       /\ \A p \in Procs :
            ChecksAlone(p) =>
               /\ all_rank_ready'[p] = acquired'[p]
               /\ \A ready \in [Procs -> BOOLEAN] :
                     check_all_rank_ready({}, p, ready) = ready[p]]_vars

\* Two ranks of a group have the result of a reduction in which one voted
\* TRUE and the other FALSE: both have FALSE.
C13_Witness ==
    \E p \in saver_group, q \in saver_group :
        /\ pc[p] = "checked" /\ pc[q] = "checked"
        /\ acquired[p] /\ ~acquired[q]
        /\ ~all_rank_ready[p] /\ ~all_rank_ready[q]

-----------------------------------------------------------------------------
(* C14 *)

\* Every rank of the group is in the reduction of a save_to_memory call for
\* the same step.
AlignedSave ==
    /\ saver_group /= {}
    /\ \A q \in saver_group : pc[q] = "all_reduce"
    /\ \A q \in saver_group, r \in saver_group : conf_step[q] = conf_step[r]

\* save_state_dict has raised on a rank of the group
WriteFailed == \E q \in saver_group : Returned(q, "RuntimeError")

\* C14: when every rank of the group has called save_to_memory for the same
\* step with a valid state, the call of every rank returns, as skipped or as
\* saved, whatever the try-acquire of each rank gave; no rank stays in the
\* reduction or in the barrier.  (An exception of save_state_dict on a rank
\* ends the round otherwise.)
C14_SaveTerminates ==
    \A p \in Procs :
        (p \in saver_group /\ AlignedSave)
            ~> (Returned(p, "skipped") \/ Returned(p, "saved") \/ WriteFailed)

\* Both ranks of a group have returned from a round in which neither got
\* its lock.
C14_Witness ==
    \E p \in saver_group, q \in saver_group :
        /\ p /= q
        /\ Returned(p, "skipped") /\ ~acquired[p] /\ round_failed[p]
        /\ Returned(q, "skipped") /\ ~acquired[q] /\ round_failed[q]

-----------------------------------------------------------------------------
(* C15 *)

\* Every rank of the group has called get_state_dict_from_memory: it is in
\* the gather of verify_all_rank_step_consistent or has returned, and some
\* rank is in the gather.
AlignedLoad ==
    /\ saver_group /= {}
    /\ \A q \in saver_group : pc[q] = "all_gather" \/ Returned(q, "state_dict")
    /\ \E q \in saver_group : pc[q] = "all_gather"

\* C15: when every rank of the group has called get_state_dict_from_memory,
\* the call of every rank returns, whatever steps the headers of the ranks
\* hold, some at step 0 and others not included; no rank stays in the gather.
C15_LoadTerminates ==
    \A p \in Procs :
        (p \in saver_group /\ AlignedLoad) ~> Returned(p, "state_dict")

-----------------------------------------------------------------------------
(* C16 *)

\* the process is not the designated writer of its shard
NotDesignatedWriter(p) == LocalRank(p) /= LocalRank(p) % local_shard_num

\* the step is a save_to_memory call of p that returns at once
ReturnsAtOnce(p) == ret[p] /= "noop" /\ ret'[p] = "noop"

\* C16: a save_to_memory call of a process that is not the designated writer
\* of its shard returns at once: the process never tries the lock, never
\* joins the reduction or the barrier, raises no ValueError, and the call
\* changes no lock, no staging region and no cached step.
C16_NonWriterNoop ==
    [][\A p \in Procs :
         NotDesignatedWriter(p) =>
            /\ pc'[p] \in {"none", "update_saver_config", "idle", "all_gather",
                          "load_state_dict"}
            /\ ret'[p] \in {"none", "noop", "state_dict"}
            /\ shm_lock'[ShardOf(p)] /= p
            /\ ~acquired'[p]
            /\ cached_step'[p] = 0
            /\ ReturnsAtOnce(p) =>
                  /\ pc[p] = "idle" /\ pc'[p] = "idle"
                  /\ UNCHANGED <<shm_lock, shm, cached_step, acquired,
                                 all_rank_ready>>]_vars

\* A process that is not the writer of its shard has returned from
\* save_to_memory while the writer of the shard, which has staged a step,
\* holds the lock in a later call.
C16_Witness ==
    \E p \in world, q \in world :
        /\ NotDesignatedWriter(p) /\ Returned(p, "noop")
        /\ ShardOf(q) = ShardOf(p) /\ q /= p
        /\ pc[q] = "checked" /\ shm_lock[ShardOf(p)] = q
        /\ shm[ShardOf(p)].step > 0
        /\ cached_step[p] = 0

-----------------------------------------------------------------------------
(* C17 *)

\* C17: with or without a group, a staging region changes only in a step of
\* an engine bound to it that is past its own successful try-acquire and has
\* not yet released the lock, and the release follows the write; the lock
\* records that engine as its holder, before and after the write, unless a
\* restart has force-released a lock the Saver held.  An engine whose
\* try-acquire failed does not write.
C17_WriteUnderLock ==
    [][\A l \in Nodes \X Shards :
         shm'[l] /= shm[l] =>
            \E p \in Procs :
                /\ ShardOf(p) = l
                /\ pc[p] = "checked" /\ pc'[p] = "written"
                /\ acquired[p]
                /\ shm_lock'[l] = shm_lock[l]
                /\ ~forced => shm_lock[l] = p]_vars

\* An engine without a group staged a step under its lock, and in a later
\* call its try-acquire failed because the Saver held the lock: the call was
\* skipped and the region is the one that was staged.
C17_Witness ==
    \E p \in world :
        /\ GroupOf(p) = {}
        /\ Returned(p, "skipped") /\ ~acquired[p]
        /\ saver[ShardOf(p)]
        /\ cached_step[p] > 0
        /\ shm[ShardOf(p)] = save_state_dict(StateDictAt(cached_step[p]), cached_step[p])

-----------------------------------------------------------------------------
(* C18 *)

\* the ways a save_to_memory call of a writer ends
SaveEnded(p) ==
    pc[p] = "idle" /\ ret[p] \in {"skipped", "saved", "ValueError", "RuntimeError"}

\* C18: when a save_to_memory call has ended, by the skip branch, after the
\* write, or by an exception (the ValueError of the reserved key, or an
\* exception of save_state_dict), the engine does not hold the lock of its
\* shard.
C18_ReleasedOnEveryExit ==
    \A p \in Procs : SaveEnded(p) => shm_lock[ShardOf(p)] /= p

-----------------------------------------------------------------------------
(* C19 *)

\* the step of p records the step of a save_to_memory call that has written
\* its region and released its lock; the call then goes on to the barrier or
\* returns as saved
Wrote(p) ==
    /\ pc[p] = "released"
    /\ pc'[p] = "barrier" \/ (pc'[p] = "idle" /\ ret'[p] = "saved")

\* the step of p ends a save_to_memory call that did not write
EndsWithoutWrite(p) ==
    /\ pc[p] \in {"idle", "checked"}
    /\ pc'[p] = "idle"
    /\ ret'[p] \in {"skipped", "noop", "ValueError", "RuntimeError"}

\* C19: the cached step of an engine is 0 after construction; the write of
\* save_to_memory sets it to the step of the call, which is then the step in
\* the header of the region; nothing else changes it: not a skipped call,
\* not a call of a process that is not the writer, not a call rejected for
\* the reserved key.
C19_CachedStep ==
    [][\A p \in Procs :
         /\ Notifies(p) => cached_step'[p] = 0
         /\ (Constructs(p) /\ pc'[p] = "idle") => cached_step'[p] = 0
         /\ Wrote(p) =>
               /\ cached_step'[p] = conf_step[p]
               /\ shm'[ShardOf(p)].step = cached_step'[p]
         /\ cached_step'[p] /= cached_step[p] => (Wrote(p) \/ Notifies(p))
         /\ EndsWithoutWrite(p) => cached_step'[p] = cached_step[p]]_vars

\* A writer of a group staged a non-zero step, and its next call was
\* skipped: its cached step is still the step in the header.
C19_Witness ==
    \E p \in saver_group :
        /\ Returned(p, "skipped")
        /\ cached_step[p] > 0
        /\ shm[ShardOf(p)].step = cached_step[p]
        /\ pre_shm[p] = shm[ShardOf(p)]

-----------------------------------------------------------------------------
(* C20 *)

\* C20: a non-empty state dict returned by get_state_dict_from_memory is the
\* state dict that was staged with the header step the call read, whatever
\* the designated writer of the region does between the read of the header
\* and the load of the payload.
C20_NoTornLoad ==
    \A p \in Procs :
        (Returned(p, "state_dict") /\ state_dict_out[p] /= {})
            => state_dict_out[p] = StateDictAt(config_step[p])
====
